---------------------------- MODULE Spec2Model ----------------------------
(***************************************************************************)
(* The training / evaluation orchestration of examples/cnn3d/train_ppi.py: *)
(* train_model (the dataset-size accounting, the epoch loop with its       *)
(* checkpoint and run_info.json bookkeeping, early stopping, the test      *)
(* phase) and its inner function __loop (one Evaluator pass).              *)
(*                                                                         *)
(* A validation loss is a rational <<numerator, denominator>>; +infinity   *)
(* is <<1, 0>>.  A checkpoint path "model-ckpt-<epoch>" is the epoch       *)
(* number.  The model parameters are the number of optimizer steps that    *)
(* produced them.  An example is the position it has in its stream.        *)
(***************************************************************************)
EXTENDS Integers, Sequences, FiniteSets, TLC

(* ---------------------------- bounds ---------------------------------- *)
\* Largest num_epochs, largest per-batch mean loss, longest test stream.
MaxEpochs == 3
MaxLoss == 3
MaxStream == 8
\* The shuffle buffer of line 141 (buffer_size=1000), scaled down.
ShuffleBuffer == 3

(* ------------------------- helper values ------------------------------ *)
\* Python's None / an unbound local variable, and a value that is set.
None == <<>>
Some(v) == <<v>>
Val(o) == o[1]

\* float("inf"), train_ppi.py line 253.
Inf == <<1, 0>>

RECURSIVE GCD(_, _)
GCD(a, b) == IF b = 0 THEN a ELSE GCD(b, a % b)

Abs(n) == IF n < 0 THEN 0 - n ELSE n

\* A rational in lowest terms.
Norm(n, d) == LET g == GCD(Abs(n), d) IN <<n \div g, d \div g>>

\* a < b on floats (finite values and +infinity).
Less(a, b) == a[1] * b[2] < b[1] * a[2]

\* a >= b on floats.
GreaterEq(a, b) == ~Less(a, b)

Min(a, b) == IF a < b THEN a ELSE b

\* The batch count rounded down instead of up.
FloorDiv(n, b) == n \div b

\* int(math.ceil(float(num_iters) / args.batch_size)), line 197.
CeilDiv(n, b) == (n + b - 1) \div b

\* dict[key] = val on a dict held as a function.
Put(d, key, val) ==
    [k \in DOMAIN d \cup {key} |-> IF k = key THEN val ELSE d[k]]

EmptyDict == [k \in {} |-> None]

EmptyResult == [structures |-> <<>>, logits |-> <<>>, preds |-> <<>>,
                labels |-> <<>>]

VARIABLES
    args,           \* the parsed command line and grid_config (never written)
    shards,         \* what the sharded datasets hold (never written)
    model_dir,      \* model_dir of a test-only run: run_info.json, checkpoints
    pc,             \* position in train_model
    err,            \* the exception that ended the run, if any
    params,         \* the session's model parameters
    train_num_structures, val_num_structures, test_num_structures,
    epoch,          \* the loop variable of line 293
    prev_val_loss, best_val_loss, curr_val_loss,
    per_epoch_val_losses,
    run_info,       \* the in-memory dict of line 286
    disk,           \* output_dir/run_info.json
    ret,            \* where __update_and_write_run_info returns to
    ckpt,           \* the local variable ckpt of train_model
    ckpt_files,     \* the checkpoint files the saver wrote: epoch -> parameters
    tables,         \* the result tables written: <<split, epoch>> -> structures
    train_res, val_res,
    to_use,         \* the checkpoint path handed to saver.restore
    mode, num_iters, num_batches, i, stream, broke,
    arrived,        \* the batches the pass got from its dataset, in order
    loss_sum,       \* the sum of the np.mean(loss) values of the pass
    res,            \* structures, logits, preds, labels of the pass
    epoch_loss,
    passes          \* the Evaluator passes started so far, in order

cfgvars == <<args, shards, model_dir>>
countvars == <<train_num_structures, val_num_structures, test_num_structures>>
lossvars == <<prev_val_loss, best_val_loss, curr_val_loss, per_epoch_val_losses>>
infovars == <<run_info, disk, ret>>
ckptvars == <<ckpt, ckpt_files>>
outvars == <<tables, train_res, val_res>>
loopvars == <<mode, num_iters, num_batches, i, stream, broke, arrived, loss_sum,
              res, epoch_loss, passes>>

vars == <<cfgvars, pc, err, params, countvars, epoch, lossvars, infovars,
          ckptvars, outvars, to_use, loopvars>>

(* --------------------------- the inputs ------------------------------- *)
\* Values of --max_pos_regions_per_ensemble[_testing] (the default of the
\* testing one is -1, line 473) and of --neg_to_pos_ratio[_testing].
CapValues == {-1, 0, 1, 2}
RatioValues == {-1, 0, 1, 2}
RepeatValues == {1, 2}
BatchSizes == {2, 4}
TrainEnsembleCaps == {None, Some(1), Some(3)}
TestEnsembleCaps == {None, Some(2), Some(5)}
LossValues == 1..MaxLoss

\* One run that gets through training and testing: one epoch with
\* --use_best, positive sampling caps and ratios for all three splits, and
\* --shuffle, with which line 138 only repeats the train and val datasets.
BaseArgs ==
    [test_only |-> FALSE, full_test |-> FALSE,
     use_best |-> TRUE, early_stopping |-> FALSE, save_all_ckpts |-> FALSE,
     num_epochs |-> 1, batch_size |-> 2, repeat_gen |-> 1, shuffle |-> TRUE,
     max_pos_regions_per_ensemble |-> 1, neg_to_pos_ratio |-> 1,
     max_pos_regions_per_ensemble_testing |-> 1, neg_to_pos_ratio_testing |-> 1,
     max_num_ensembles_train |-> None, max_num_ensembles_val |-> None,
     max_num_ensembles_test |-> None]

\* get_num_keyed() of the three datasets and the number of examples the
\* test generator yields in its one pass.
BaseShards ==
    [train_keyed |-> 2, val_keyed |-> 1, test_keyed |-> 1, test_examples |-> 3]

\* No run_info.json in model_dir.
NoModelDir == [exists |-> FALSE, info |-> EmptyDict, files |-> EmptyDict]

\* Every model-selection policy and epoch count, on the base datasets.
PolicyRuns ==
    { <<[BaseArgs EXCEPT !.use_best = ub, !.early_stopping = es,
                         !.save_all_ckpts = sa, !.num_epochs = ne,
                         !.full_test = ft],
        BaseShards, NoModelDir>> :
        <<ub, es, sa, ne, ft>> \in
            BOOLEAN \X BOOLEAN \X BOOLEAN \X (1..MaxEpochs) \X BOOLEAN }

\* Every train/val sampling configuration, one epoch.
TrainValRuns ==
    { <<[BaseArgs EXCEPT !.max_pos_regions_per_ensemble = cap,
                         !.neg_to_pos_ratio = ratio,
                         !.repeat_gen = rep, !.batch_size = bs,
                         !.max_num_ensembles_train = mt,
                         !.max_num_ensembles_val = mv],
        BaseShards, NoModelDir>> :
        <<cap, ratio, rep, bs, mt, mv>> \in
            CapValues \X RatioValues \X RepeatValues \X BatchSizes
                \X TrainEnsembleCaps \X TrainEnsembleCaps }

\* Every test sampling configuration and test stream length, one epoch.
TestRuns ==
    { <<[BaseArgs EXCEPT !.max_pos_regions_per_ensemble_testing = cap,
                         !.neg_to_pos_ratio_testing = ratio,
                         !.full_test = ft, !.batch_size = bs,
                         !.max_num_ensembles_test = mt],
        [BaseShards EXCEPT !.test_examples = n], NoModelDir>> :
        <<cap, ratio, ft, bs, mt, n>> \in
            CapValues \X RatioValues \X BOOLEAN \X BatchSizes
                \X TestEnsembleCaps \X (0..MaxStream) }

\* What an earlier run can have left in model_dir: no run_info.json, one
\* without best_ckpt, one whose best_ckpt is a checkpoint file.
ModelDirs ==
    {NoModelDir,
     [exists |-> TRUE, info |-> Put(EmptyDict, "val_losses", <<>>),
      files |-> EmptyDict],
     [exists |-> TRUE, info |-> Put(EmptyDict, "best_ckpt", 1),
      files |-> Put(EmptyDict, 1, 2)],
     [exists |-> TRUE, info |-> Put(EmptyDict, "best_ckpt", 2),
      files |-> Put(Put(EmptyDict, 1, 2), 2, 4)],
     [exists |-> TRUE, info |-> Put(EmptyDict, "best_ckpt", 1),
      files |-> Put(Put(EmptyDict, 1, 2), 2, 4)]}

\* Test-only runs (--test_only --model_dir ...).
TestOnlyRuns ==
    { <<[BaseArgs EXCEPT !.test_only = TRUE, !.use_best = ub, !.full_test = ft,
                         !.max_pos_regions_per_ensemble = cap],
        BaseShards, md>> :
        <<ub, ft, cap, md>> \in BOOLEAN \X BOOLEAN \X {-1, 1} \X ModelDirs }

\* A run without --shuffle, its train and val passes one batch each.
ShuffleRuns ==
    { <<[BaseArgs EXCEPT !.shuffle = FALSE, !.max_num_ensembles_train = Some(1)],
        BaseShards, NoModelDir>> }

Runs ==
    PolicyRuns \cup TrainValRuns \cup TestRuns \cup TestOnlyRuns \cup ShuffleRuns

\* The state when train_model is entered and sess.run(init) has run
\* (lines 151-246).  Freshly initialised parameters are version 0.
Init ==
    /\ \E r \in Runs : args = r[1] /\ shards = r[2] /\ model_dir = r[3]
    /\ pc = "start"
    /\ err = None
    /\ params = 0
    /\ train_num_structures = None
    /\ val_num_structures = None
    /\ test_num_structures = None
    /\ epoch = 0
    /\ prev_val_loss = None
    /\ best_val_loss = None
    /\ curr_val_loss = None
    /\ per_epoch_val_losses = <<>>
    /\ run_info = EmptyDict
    /\ disk = [state |-> "absent", data |-> <<>>]
    /\ ret = "none"
    /\ ckpt = None
    /\ ckpt_files = EmptyDict
    /\ tables = EmptyDict
    /\ train_res = EmptyResult
    /\ val_res = EmptyResult
    /\ to_use = None
    /\ mode = "none"
    /\ num_iters = 0
    /\ num_batches = 0
    /\ i = 0
    /\ stream = [next |-> 1, len |-> None, buf |-> {}]
    /\ arrived = <<>>
    /\ loss_sum = 0
    /\ broke = FALSE
    /\ res = EmptyResult
    /\ epoch_loss = <<0, 1>>
    /\ passes = <<>>

(* ----------------------- dataset-size accounting ---------------------- *)
\* The multiplier without the positives: cap * ratio.
MultiplierRatioOnly(cap, ratio) == cap * ratio

\* max_pos_regions_per_ensemble * int(1 + neg_to_pos_ratio), lines 258-259
\* and 405-406.  Both flags are parsed with type=int.
Multiplier(cap, ratio) == cap * (1 + ratio)

\* Lines 261-269 and 408-411.
NumStructures(max_num_ensembles, num_keyed) ==
    IF max_num_ensembles = None THEN num_keyed ELSE Val(max_num_ensembles)

\* The guard letting zero through.
NonNegativeSampling(cap, ratio) == cap >= 0 /\ ratio >= 0

\* The guard of lines 255-256 and 402-403.
PositiveSampling(cap, ratio) == cap > 0 /\ ratio > 0

\* train_num_structures after line 271.
TrainCount ==
    NumStructures(args.max_num_ensembles_train, shards.train_keyed)
        * (args.repeat_gen
            * Multiplier(args.max_pos_regions_per_ensemble, args.neg_to_pos_ratio))

\* val_num_structures after line 272.
ValCount ==
    NumStructures(args.max_num_ensembles_val, shards.val_keyed)
        * (args.repeat_gen
            * Multiplier(args.max_pos_regions_per_ensemble, args.neg_to_pos_ratio))

\* test_num_structures after line 413.
TestCount ==
    NumStructures(args.max_num_ensembles_test, shards.test_keyed)
        * Multiplier(args.max_pos_regions_per_ensemble_testing,
                     args.neg_to_pos_ratio_testing)

\* An uncaught exception ends train_model.
Raise(e) == pc' = "aborted" /\ err' = Some(e)

(* --------------------------- one Evaluator pass ----------------------- *)
\* model.training(loss_op, learning_rate): running the op it returns applies
\* one optimizer step to the parameters.
training(p) == p + 1

\* The mean of the old mean and the new value, whatever the index is.
RunningMeanHalf(mean, value, index) ==
    Norm(mean[1] + value * mean[2], 2 * mean[2])

\* epoch_loss += (np.mean(loss) - epoch_loss) / (i + 1), line 215.
RunningMean(mean, value, index) ==
    Norm(mean[1] * (index + 1) + (value * mean[2] - mean[1]),
         mean[2] * (index + 1))

\* The stream of a pass has another element.
HasNext == IF stream.len = None THEN TRUE ELSE stream.next <= Val(stream.len)

\* dataset.batch(args.batch_size), line 143: the next batch_size elements,
\* fewer at the end of a finite stream.
NextBatch ==
    LET last == IF stream.len = None
                THEN stream.next + args.batch_size - 1
                ELSE Min(stream.next + args.batch_size - 1, Val(stream.len))
    IN  [k \in 1..(last - stream.next + 1) |-> stream.next + k - 1]

\* The dataset of a pass of mode m goes through shuffle_and_repeat: lines
\* 136-141 shuffle the train and val datasets when args.shuffle is off and
\* only repeat them when it is on.
Shuffled(m) == m # "test" /\ ~args.shuffle

\* What the next batch of an unshuffled dataset is, and the stream after it.
OrderedBatches ==
    {[batch |-> NextBatch, buf |-> {}, next |-> stream.next + Len(NextBatch)]}

\* tf.contrib.data.shuffle_and_repeat, line 141: every element of a batch
\* is any element of the buffer, which is refilled from the stream.  The
\* batches of k elements that can come out of buffer buf, with the buffer
\* and the stream position they leave.
RECURSIVE ShuffledBatches(_, _, _)
ShuffledBatches(buf, next, k) ==
    IF k = 0 THEN {[batch |-> <<>>, buf |-> buf, next |-> next]}
    ELSE UNION { { [batch |-> <<x>> \o r.batch, buf |-> r.buf, next |-> r.next] :
                     r \in ShuffledBatches((buf \ {x}) \cup {next}, next + 1, k - 1) } :
                 x \in buf }

\* The batches sess.run(next_element) can return, line 203.
Batches ==
    IF Shuffled(mode)
    THEN ShuffledBatches(stream.buf, stream.next, args.batch_size)
    ELSE OrderedBatches

\* list.append for list.extend: one entry for a batch, not one an example.
ExtendAsAppend(list, batch) == Append(list, batch)

\* list.extend, lines 217-221.
Extend(list, batch) == list \o batch

\* The ops sess.run is asked for in a batch of the given mode, lines 204-205:
\* train_op is in the fetch list whatever the mode.
RunsTrainOp(m) == TRUE

\* __loop is entered, lines 187-200.  The train and val datasets repeat
\* forever, the test dataset is one pass of the generator (lines 136-141).
StartLoop(m, n) ==
    /\ mode' = m
    /\ num_iters' = n
    /\ num_batches' = CeilDiv(n, args.batch_size)
    /\ i' = 0
    /\ stream' = [next |-> IF Shuffled(m) THEN ShuffleBuffer + 1 ELSE 1,
                  len |-> IF m = "test" THEN Some(shards.test_examples) ELSE None,
                  buf |-> IF Shuffled(m) THEN 1..ShuffleBuffer ELSE {}]
    /\ arrived' = <<>>
    /\ loss_sum' = 0
    /\ broke' = FALSE
    /\ res' = EmptyResult
    /\ epoch_loss' = <<0, 1>>
    /\ passes' = Append(passes, m)
    /\ pc' = "loop"

\* One iteration of the for loop that gets a batch, lines 201-224.
LoopBatch ==
    /\ pc = "loop" /\ ~broke /\ i < num_batches /\ HasNext
    /\ \E l \in LossValues :
         /\ epoch_loss' = RunningMean(epoch_loss, l, i)
         /\ loss_sum' = loss_sum + l
    /\ params' = IF RunsTrainOp(mode) THEN training(params) ELSE params
    /\ \E b \in Batches :
         /\ arrived' = Append(arrived, b.batch)
         /\ res' = [structures |-> Extend(res.structures, b.batch),
                    logits |-> Extend(res.logits, b.batch),
                    preds |-> Extend(res.preds, b.batch),
                    labels |-> Extend(res.labels, b.batch)]
         /\ stream' = [stream EXCEPT !.next = b.next, !.buf = b.buf]
    /\ i' = i + 1
    /\ UNCHANGED <<cfgvars, pc, err, countvars, epoch, lossvars, infovars,
                   ckptvars, outvars, to_use, mode, num_iters, num_batches,
                   broke, passes>>

\* The iteration whose sess.run(next_element) raises OutOfRangeError,
\* lines 225-227.
LoopExhausted ==
    /\ pc = "loop" /\ ~broke /\ i < num_batches /\ ~HasNext
    /\ broke' = TRUE
    /\ UNCHANGED <<cfgvars, pc, err, params, countvars, epoch, lossvars,
                   infovars, ckptvars, outvars, to_use, mode, num_iters,
                   num_batches, i, stream, arrived, loss_sum, res,
                   epoch_loss, passes>>

\* The for loop is over and __loop returns, lines 229-241.
LoopReturn ==
    /\ pc = "loop" /\ (broke \/ i = num_batches)
    /\ pc' = CASE mode = "train" -> "after_train"
               [] mode = "val" -> "after_val"
               [] OTHER -> "after_test"
    /\ UNCHANGED <<cfgvars, err, params, countvars, epoch, lossvars, infovars,
                   ckptvars, outvars, to_use, loopvars>>

(* ------------------------------ train_model --------------------------- *)
\* _save(), lines 280-283: saver.save(..., global_step=epoch) writes the
\* session's parameters to model-ckpt-<epoch> and returns that path.
SavedFiles == Put(ckpt_files, epoch, params)

\* open(run_info_filename, 'w'), line 289: the file is truncated.
Truncated == [state |-> "truncated", data |-> <<>>]

\* The keys of run_info in the order the code inserts them (lines 328,
\* 335, 336), which is the order json.dump writes them in.
KeyOrder == <<"val_losses", "val_best_loss", "best_ckpt">>

\* A dump that writes only the entry put last.
JsonDumpLast(d) ==
    LET Present(k) == k \in DOMAIN d
        keys == SelectSeq(KeyOrder, Present)
    IN  IF keys = <<>> THEN <<>>
        ELSE << <<keys[Len(keys)], d[keys[Len(keys)]]>> >>

\* json.dump(run_info, f, indent=4), line 290: the document is the
\* sequence of the dict's "key": value members.
JsonDump(d) ==
    LET Present(k) == k \in DOMAIN d
        keys == SelectSeq(KeyOrder, Present)
    IN  [n \in 1..Len(keys) |-> <<keys[n], d[keys[n]]>>]

\* json.load, line 383: the dict of a document's members.
JsonLoad(doc) ==
    [k \in {doc[n][1] : n \in DOMAIN doc} |->
        doc[CHOOSE n \in DOMAIN doc : doc[n][1] = k][2]]

\* The best-epoch test with <= for <.
NewBestOrEqual ==
    /\ args.use_best \/ args.early_stopping
    /\ ~Less(best_val_loss, curr_val_loss)

\* The best-epoch test that also takes a loss equal to the best one.
NewBestOrTie ==
    /\ args.use_best \/ args.early_stopping
    /\ Less(curr_val_loss, best_val_loss) \/ curr_val_loss = best_val_loss

\* The best epoch tracked only for use_best.
NewBestUseBestOnly ==
    /\ args.use_best
    /\ Less(curr_val_loss, best_val_loss)

\* The condition of lines 330-331.
NewBest ==
    /\ args.use_best \/ args.early_stopping
    /\ Less(curr_val_loss, best_val_loss)

\* The condition of line 339.
AtFinalEpoch == epoch = args.num_epochs - 1 /\ ~args.use_best

\* The early-stopping test against the best loss instead of the previous one.
StopEarlyOnBest ==
    args.early_stopping /\ GreaterEq(curr_val_loss, best_val_loss)

\* The condition of line 369.
StopEarly == args.early_stopping /\ GreaterEq(curr_val_loss, prev_val_loss)

\* Lines 252-277 of a training run: the losses start at +infinity and the
\* per-epoch example counts are computed, or the assert of line 274 fails.
Account ==
    /\ pc = "start" /\ ~args.test_only
    /\ prev_val_loss' = Inf
    /\ best_val_loss' = Inf
    /\ IF PositiveSampling(args.max_pos_regions_per_ensemble,
                           args.neg_to_pos_ratio)
       THEN /\ train_num_structures' = Some(TrainCount)
            /\ val_num_structures' = Some(ValCount)
            /\ pc' = "epoch_head"
            /\ err' = err
       ELSE /\ Raise("AssertionError")
            /\ UNCHANGED <<train_num_structures, val_num_structures>>
    /\ UNCHANGED <<cfgvars, params, test_num_structures, epoch, curr_val_loss,
                   per_epoch_val_losses, infovars, ckptvars, outvars, to_use,
                   loopvars>>

\* Line 252 of a test-only run: the training block is skipped.
SkipTraining ==
    /\ pc = "start" /\ args.test_only
    /\ pc' = "select"
    /\ UNCHANGED <<cfgvars, err, params, countvars, epoch, lossvars, infovars,
                   ckptvars, outvars, to_use, loopvars>>

\* The for statement of line 293 starts another epoch, whose train pass is
\* entered (lines 294-322).
NextEpoch ==
    /\ pc = "epoch_head" /\ epoch < args.num_epochs
    /\ epoch' = epoch + 1
    /\ StartLoop("train", Val(train_num_structures))
    /\ UNCHANGED <<cfgvars, err, params, countvars, lossvars, infovars,
                   ckptvars, outvars, to_use>>

\* range(1, num_epochs + 1) is exhausted, line 293.
EpochsExhausted ==
    /\ pc = "epoch_head" /\ epoch = args.num_epochs
    /\ pc' = "select"
    /\ UNCHANGED <<cfgvars, err, params, countvars, epoch, lossvars, infovars,
                   ckptvars, outvars, to_use, loopvars>>

\* The train pass has returned and the val pass is entered, lines 321-325.
StartVal ==
    /\ pc = "after_train"
    /\ train_res' = res
    /\ StartLoop("val", Val(val_num_structures))
    /\ UNCHANGED <<cfgvars, err, params, countvars, epoch, lossvars, infovars,
                   ckptvars, tables, val_res, to_use>>

\* The val pass has returned; its loss is appended and val_losses is put
\* into run_info, whose file is opened for writing (lines 324-328, 288-289).
RecordValLoss ==
    /\ pc = "after_val"
    /\ val_res' = res
    /\ curr_val_loss' = epoch_loss
    /\ per_epoch_val_losses' = Append(per_epoch_val_losses, epoch_loss)
    /\ run_info' = Put(run_info, "val_losses", per_epoch_val_losses')
    /\ disk' = Truncated
    /\ pc' = "dump" /\ ret' = "best_check"
    /\ UNCHANGED <<cfgvars, err, params, countvars, epoch, prev_val_loss,
                   best_val_loss, ckptvars, tables, train_res, to_use, loopvars>>

\* json.dump(run_info, f) and the close of the file, line 290.
Dump ==
    /\ pc = "dump"
    /\ disk' = [state |-> "written", data |-> JsonDump(run_info)]
    /\ pc' = ret /\ ret' = "none"
    /\ UNCHANGED <<cfgvars, err, params, countvars, epoch, lossvars, run_info,
                   ckptvars, outvars, to_use, loopvars>>

\* Lines 330-335: a new best epoch saves a checkpoint and puts val_best_loss
\* into run_info.
BestCheck ==
    /\ pc = "best_check"
    /\ IF NewBest
       THEN /\ best_val_loss' = curr_val_loss
            /\ ckpt_files' = SavedFiles
            /\ ckpt' = Some(epoch)
            /\ run_info' = Put(run_info, "val_best_loss", curr_val_loss)
            /\ disk' = Truncated
            /\ pc' = "dump" /\ ret' = "best_ckpt"
       ELSE /\ pc' = "final_check"
            /\ UNCHANGED <<best_val_loss, ckptvars, infovars>>
    /\ UNCHANGED <<cfgvars, err, params, countvars, epoch, prev_val_loss,
                   curr_val_loss, per_epoch_val_losses, outvars, to_use,
                   loopvars>>

\* Line 336: best_ckpt is put into run_info.
BestCkpt ==
    /\ pc = "best_ckpt"
    /\ run_info' = Put(run_info, "best_ckpt", Val(ckpt))
    /\ disk' = Truncated
    /\ pc' = "dump" /\ ret' = "final_check"
    /\ UNCHANGED <<cfgvars, err, params, countvars, epoch, lossvars, ckptvars,
                   outvars, to_use, loopvars>>

\* Lines 339-343: the checkpoint of the final epoch.
FinalCheck ==
    /\ pc = "final_check"
    /\ IF AtFinalEpoch
       THEN /\ ckpt_files' = SavedFiles
            /\ ckpt' = Some(epoch)
            /\ run_info' = Put(run_info, "best_ckpt", epoch)
            /\ disk' = Truncated
            /\ pc' = "dump" /\ ret' = "save_all"
       ELSE /\ pc' = "save_all"
            /\ UNCHANGED <<ckptvars, infovars>>
    /\ UNCHANGED <<cfgvars, err, params, countvars, epoch, lossvars, outvars,
                   to_use, loopvars>>

\* Saving every epoch but the one that stops the loop.
SavesAllUnlessStopping == args.save_all_ckpts /\ ~StopEarly

\* Line 345: a checkpoint is saved whatever the epoch's loss was.
SavesAll == args.save_all_ckpts

\* Lines 345-348: a checkpoint at every epoch.
SaveAll ==
    /\ pc = "save_all"
    /\ IF SavesAll
       THEN ckpt_files' = SavedFiles /\ ckpt' = Some(epoch)
       ELSE UNCHANGED ckptvars
    /\ pc' = "tables"
    /\ UNCHANGED <<cfgvars, err, params, countvars, epoch, lossvars, infovars,
                   outvars, to_use, loopvars>>

\* The early-stopping test of line 369 made before the tables are written:
\* the epoch that stops the loop leaves no tables.
SaveTablesUnlessStopping ==
    /\ pc = "tables"
    /\ tables' = IF StopEarly THEN tables
                 ELSE Put(Put(tables, <<"train", epoch>>, train_res.structures),
                          <<"val", epoch>>, val_res.structures)
    /\ pc' = "early_stop"
    /\ UNCHANGED <<cfgvars, err, params, countvars, epoch, lossvars, infovars,
                   ckptvars, train_res, val_res, to_use, loopvars>>

\* Lines 350-367: the train and val result tables of the epoch are written.
SaveTables ==
    /\ pc = "tables"
    /\ tables' = Put(Put(tables, <<"train", epoch>>, train_res.structures),
                     <<"val", epoch>>, val_res.structures)
    /\ pc' = "early_stop"
    /\ UNCHANGED <<cfgvars, err, params, countvars, epoch, lossvars, infovars,
                   ckptvars, train_res, val_res, to_use, loopvars>>

\* Lines 369-373: break, or remember the loss and go on with the loop.
EarlyStop ==
    /\ pc = "early_stop"
    /\ IF StopEarly
       THEN pc' = "select" /\ UNCHANGED prev_val_loss
       ELSE pc' = "epoch_head" /\ prev_val_loss' = curr_val_loss
    /\ UNCHANGED <<cfgvars, err, params, countvars, epoch, best_val_loss,
                   curr_val_loss, per_epoch_val_losses, infovars, ckptvars,
                   outvars, to_use, loopvars>>

\* Lines 379-380 of a training run: the checkpoint to test with.  Reading
\* a key run_info does not hold, or ckpt before any assignment, raises.
Selected ==
    IF args.use_best
    THEN IF "best_ckpt" \in DOMAIN run_info
         THEN Some(run_info["best_ckpt"]) ELSE None
    ELSE ckpt

\* Lines 379-388 after training: the selected checkpoint is restored.
SelectTrained ==
    /\ pc = "select" /\ ~args.test_only
    /\ IF Selected = None
       THEN /\ Raise(IF args.use_best THEN "KeyError" ELSE "UnboundLocalError")
            /\ UNCHANGED <<to_use, params>>
       ELSE /\ to_use' = Selected
            /\ params' = ckpt_files[Val(Selected)]
            /\ pc' = "test_count"
            /\ err' = err
    /\ UNCHANGED <<cfgvars, countvars, epoch, lossvars, infovars, ckptvars,
                   outvars, loopvars>>

\* The newest checkpoint of model_dir, whatever its run_info.json says.
LatestCkpt ==
    CHOOSE k \in DOMAIN model_dir.files : \A j \in DOMAIN model_dir.files : j <= k

\* Line 384: the checkpoint a test-only run restores.
TestOnlyCkpt == model_dir.info["best_ckpt"]

\* Lines 381-388 of a test-only run: run_info.json of model_dir is loaded
\* and its best_ckpt restored; a missing file, key or checkpoint raises.
SelectTestOnly ==
    /\ pc = "select" /\ args.test_only
    /\ IF ~model_dir.exists
       THEN /\ Raise("FileNotFoundError")
            /\ UNCHANGED <<run_info, to_use, params>>
       ELSE /\ run_info' = model_dir.info
            /\ IF "best_ckpt" \notin DOMAIN model_dir.info
               THEN /\ Raise("KeyError")
                    /\ UNCHANGED <<to_use, params>>
               ELSE /\ to_use' = Some(TestOnlyCkpt)
                    /\ params' = model_dir.files[TestOnlyCkpt]
                    /\ pc' = "test_count"
                    /\ err' = err
    /\ UNCHANGED <<cfgvars, countvars, epoch, lossvars, disk, ret, ckptvars,
                   outvars, loopvars>>

\* Lines 390-419: the test example count is computed and the test pass is
\* entered, or the assert of line 415 fails.
TestAccount ==
    /\ pc = "test_count"
    /\ IF /\ ~args.full_test
          /\ PositiveSampling(args.max_pos_regions_per_ensemble_testing,
                              args.neg_to_pos_ratio_testing)
       THEN /\ test_num_structures' = Some(TestCount)
            /\ StartLoop("test", TestCount)
            /\ err' = err
       ELSE /\ Raise("AssertionError")
            /\ UNCHANGED <<test_num_structures, loopvars>>
    /\ UNCHANGED <<cfgvars, params, train_num_structures, val_num_structures,
                   epoch, lossvars, infovars, ckptvars, outvars, to_use>>

\* Lines 420-429: the test result table is written and train_model returns.
TestTable ==
    /\ pc = "after_test"
    /\ tables' = Put(tables, <<"test", 0>>, res.structures)
    /\ pc' = "done"
    /\ UNCHANGED <<cfgvars, err, params, countvars, epoch, lossvars, infovars,
                   ckptvars, train_res, val_res, to_use, loopvars>>

Next ==
    \/ Account
    \/ SkipTraining
    \/ NextEpoch
    \/ EpochsExhausted
    \/ LoopBatch
    \/ LoopExhausted
    \/ LoopReturn
    \/ StartVal
    \/ RecordValLoss
    \/ Dump
    \/ BestCheck
    \/ BestCkpt
    \/ FinalCheck
    \/ SaveAll
    \/ SaveTables
    \/ EarlyStop
    \/ SelectTrained
    \/ SelectTestOnly
    \/ TestAccount
    \/ TestTable

Spec == Init /\ [][Next]_vars

(* ------------------------------ the claims ---------------------------- *)
\* A training run (not --test_only).
Training == ~args.test_only

\* The validation loss the early-stopping rule compares epoch k with.
PrevLoss(k) == IF k = 1 THEN Inf ELSE per_epoch_val_losses[k - 1]

\* The smallest of the first k validation losses, +infinity for k = 0.
RECURSIVE MinLoss(_)
MinLoss(k) ==
    IF k = 0 THEN Inf
    ELSE IF Less(per_epoch_val_losses[k], MinLoss(k - 1))
         THEN per_epoch_val_losses[k] ELSE MinLoss(k - 1)

\* Epoch k improved on every epoch before it.
Improved(k) == Less(per_epoch_val_losses[k], MinLoss(k - 1))

\* The earliest epoch with the smallest validation loss so far.
BestEpoch ==
    CHOOSE k \in 1..Len(per_epoch_val_losses) :
        /\ per_epoch_val_losses[k] = MinLoss(Len(per_epoch_val_losses))
        /\ \A j \in 1..(k - 1) : per_epoch_val_losses[j] # per_epoch_val_losses[k]

\* The bookkeeping of the current epoch is complete and the next epoch has
\* not started.
EpochComplete ==
    /\ Training
    /\ epoch >= 1
    /\ pc \in {"early_stop", "epoch_head", "select", "test_count"}

\* C1: a batch processed in mode 'val' or 'test' leaves the model
\* parameters as they were; only batches of mode 'train' change them.
C1_OnlyTrainUpdates ==
    [][(pc = "loop" /\ mode \in {"val", "test"}) => params' = params]_vars

\* C2: without use_best, once the bookkeeping of epoch num_epochs has passed
\* the checkpoint decisions, a checkpoint of that epoch is persisted and is
\* the terminal model (the one ckpt names).
C2_FinalEpochCheckpoint ==
    (Training /\ ~args.use_best /\ epoch = args.num_epochs /\ pc = "tables")
        => /\ args.num_epochs \in DOMAIN ckpt_files
           /\ ckpt = Some(args.num_epochs)

\* C3: after training, the checkpoint restored for the test pass is the one
\* of the earliest minimum-validation-loss epoch with use_best, and else the
\* one persisted at the last epoch that ran; the selection never fails.
C3_RestoredByPolicy ==
    /\ (Training /\ pc = "test_count")
          => /\ to_use = Some(IF args.use_best THEN BestEpoch ELSE epoch)
             /\ Val(to_use) \in DOMAIN ckpt_files
    /\ Training => err \notin {Some("UnboundLocalError"), Some("KeyError")}

\* C4: with early stopping every epoch but the last one run improved on the
\* epoch before it (+infinity before epoch 1), and the loop is left either
\* at such a non-improving epoch or after num_epochs epochs, with the
\* smallest loss seen as best_val_loss; without early stopping it is left
\* only after num_epochs epochs.
C4_EarlyStopping ==
    Training =>
      /\ Len(per_epoch_val_losses) \in {epoch - 1, epoch}
      /\ epoch <= args.num_epochs
      /\ args.early_stopping =>
           \A k \in 1..Len(per_epoch_val_losses) :
              (k < epoch \/ pc = "epoch_head")
                 => Less(per_epoch_val_losses[k], PrevLoss(k))
      /\ (pc \in {"select", "test_count", "after_test", "done"}
            \/ (pc = "loop" /\ mode = "test"))
           => /\ Len(per_epoch_val_losses) = epoch
              /\ \/ epoch = args.num_epochs
                 \/ /\ args.early_stopping
                    /\ GreaterEq(per_epoch_val_losses[epoch], PrevLoss(epoch))
      /\ (args.early_stopping /\ pc = "select") =>
           best_val_loss = MinLoss(epoch)

\* The example of C4: validation losses high, low, middle (1.0, 0.8, 0.9)
\* stop the loop after epoch 3 with the low one as best_val_loss.
C4_Witness ==
    /\ args.early_stopping /\ args.num_epochs > 2
    /\ pc = "select" /\ epoch = 3
    /\ per_epoch_val_losses = << <<3, 1>>, <<1, 1>>, <<2, 1>> >>
    /\ best_val_loss = <<1, 1>>

\* C5 as stated: with use_best or early_stopping, after every completed
\* epoch best_val_loss is the minimum of the validation losses so far,
\* run_info's val_best_loss equals it, and the epochs with a persisted
\* checkpoint are exactly those that improved on the best loss.
C5_BestTrackingExact ==
    (EpochComplete /\ (args.use_best \/ args.early_stopping)) =>
      /\ best_val_loss = MinLoss(epoch)
      /\ "val_best_loss" \in DOMAIN run_info
      /\ run_info["val_best_loss"] = best_val_loss
      /\ DOMAIN ckpt_files = {k \in 1..epoch : Improved(k)}

\* C5 amended: as above, but every improving epoch has a persisted
\* checkpoint, and another epoch has one only through save_all_ckpts or the
\* save of lines 339-343 (epoch num_epochs - 1 without use_best).
C5_BestTracking ==
    (EpochComplete /\ (args.use_best \/ args.early_stopping)) =>
      /\ best_val_loss = MinLoss(epoch)
      /\ "val_best_loss" \in DOMAIN run_info
      /\ run_info["val_best_loss"] = best_val_loss
      /\ \A k \in 1..epoch : Improved(k) => k \in DOMAIN ckpt_files
      /\ \A k \in DOMAIN ckpt_files :
            \/ Improved(k)
            \/ args.save_all_ckpts
            \/ (k = args.num_epochs - 1 /\ ~args.use_best)

\* Three epochs of which only the first and the third improved, and only
\* those two have a checkpoint.
C5_Witness ==
    /\ EpochComplete /\ args.use_best /\ epoch = 3
    /\ Improved(1) /\ ~Improved(2) /\ Improved(3)
    /\ DOMAIN ckpt_files = {1, 3}

\* run_info.json holds best_ckpt.
FileHasBest == "best_ckpt" \in DOMAIN JsonLoad(disk.data)

\* In run_info.json best_ckpt and val_best_loss are there together and
\* belong to the same epoch: the epoch of best_ckpt has the loss
\* val_best_loss.
FilePaired ==
    /\ FileHasBest = ("val_best_loss" \in DOMAIN JsonLoad(disk.data))
    /\ FileHasBest =>
          LET info == JsonLoad(disk.data)
          IN  /\ info["best_ckpt"] \in 1..Len(info["val_losses"])
              /\ info["val_losses"][info["best_ckpt"]] = info["val_best_loss"]

\* C6: every state run_info.json gets into (a crash leaves the file in the
\* state it is in) holds best_ckpt and val_best_loss together and for the
\* same epoch, and a file that holds best_ckpt keeps holding one.
C6_RunInfoAtomic ==
    [][Training => (FilePaired' /\ (FileHasBest => FileHasBest'))]_vars

\* C7: the example counts of the three splits are num_structures * repeat *
\* max_pos_regions_per_ensemble * (1 + neg_to_pos_ratio), with repeat = 1
\* and the testing cap and ratio for the test split, and each Evaluator
\* pass is bounded by the count of its split.
C7_ExampleCounts ==
    /\ train_num_structures # None =>
         Val(train_num_structures) =
            (IF args.max_num_ensembles_train = None THEN shards.train_keyed
             ELSE args.max_num_ensembles_train[1])
            * args.repeat_gen * args.max_pos_regions_per_ensemble
            * (1 + args.neg_to_pos_ratio)
    /\ val_num_structures # None =>
         Val(val_num_structures) =
            (IF args.max_num_ensembles_val = None THEN shards.val_keyed
             ELSE args.max_num_ensembles_val[1])
            * args.repeat_gen * args.max_pos_regions_per_ensemble
            * (1 + args.neg_to_pos_ratio)
    /\ test_num_structures # None =>
         Val(test_num_structures) =
            (IF args.max_num_ensembles_test = None THEN shards.test_keyed
             ELSE args.max_num_ensembles_test[1])
            * args.max_pos_regions_per_ensemble_testing
            * (1 + args.neg_to_pos_ratio_testing)
    /\ pc = "loop" =>
         num_iters = CASE mode = "train" -> Val(train_num_structures)
                       [] mode = "val" -> Val(val_num_structures)
                       [] OTHER -> Val(test_num_structures)
    /\ (pc = "epoch_head" /\ Training) =>
         train_num_structures # None /\ val_num_structures # None

\* A test pass bounded by 5 * 1 * (1 + 1) = 10 examples after train passes
\* bounded by 2 * 1 * 1 * (1 + 1) = 4.
C7_Witness ==
    /\ pc = "loop" /\ mode = "test" /\ num_iters = 10
    /\ args.max_num_ensembles_test = Some(5)
    /\ train_num_structures = Some(4) /\ val_num_structures = Some(2)

\* A train pass bounded by 3 * 2 * 2 * (1 + 2) = 36 examples.
C7_WitnessTrain ==
    /\ pc = "loop" /\ mode = "train" /\ num_iters = 36
    /\ args.repeat_gen = 2 /\ args.max_num_ensembles_train = Some(3)

\* C8: with a non-positive train/val cap or ratio a training run computes
\* no count, runs no pass, writes no checkpoint and no run_info.json, and
\* can only end in the AssertionError; with a non-positive testing cap or
\* ratio no test count is computed and no test pass runs, and the run does
\* not complete.
C8_NonPositiveAborts ==
    /\ (Training /\ ~(args.max_pos_regions_per_ensemble > 0
                        /\ args.neg_to_pos_ratio > 0)) =>
          /\ pc \in {"start", "aborted"}
          /\ pc = "aborted" => err = Some("AssertionError")
          /\ train_num_structures = None /\ val_num_structures = None
          /\ passes = <<>> /\ epoch = 0
          /\ DOMAIN ckpt_files = {}
          /\ disk.state = "absent"
    /\ ~(args.max_pos_regions_per_ensemble_testing > 0
           /\ args.neg_to_pos_ratio_testing > 0) =>
          /\ test_num_structures = None
          /\ \A k \in 1..Len(passes) : passes[k] # "test"
          /\ pc \notin {"after_test", "done"}
          /\ (to_use # None /\ pc # "test_count") =>
                pc = "aborted" /\ err = Some("AssertionError")

\* A training run with a cap of 0 that has aborted before its first epoch.
C8_Witness ==
    /\ Training /\ args.max_pos_regions_per_ensemble = 0
    /\ args.neg_to_pos_ratio > 0
    /\ pc = "aborted" /\ err = Some("AssertionError")
    /\ passes = <<>> /\ disk.state = "absent"

\* C9: with full_test the test phase does not abort: once a checkpoint is
\* restored the run goes on to the test pass and the test result table.
C9_FullTestRuns ==
    (args.full_test /\ to_use # None) => pc # "aborted"

\* C10: a pass processes at most ceil(num_iters / batch_size) batches; it
\* breaks only on a batch request that finds the stream exhausted, and
\* never with an error; what it collected are the examples of the batches
\* it processed, min(length, i * batch_size) of them, the first of the
\* stream when the dataset is not shuffled.  With
\* num_iters = 10, batch_size = 4 and 7 examples it returns 7 examples
\* after 2 batches.
C10_PassBounded ==
    /\ pc = "loop" =>
         /\ i <= num_batches
         /\ num_batches * args.batch_size >= num_iters
         /\ num_batches > 0 => (num_batches - 1) * args.batch_size < num_iters
         /\ broke => (stream.len # None /\ stream.next = stream.len[1] + 1
                        /\ i < num_batches)
    /\ (pc \in {"loop", "after_train", "after_val", "after_test"}) =>
         /\ err = None
         /\ Len(res.structures) =
               IF stream.len = None THEN i * args.batch_size
               ELSE Min(stream.len[1], i * args.batch_size)
         /\ ~Shuffled(mode) =>
               res.structures = [k \in 1..Len(res.structures) |-> k]
         /\ res.logits = res.structures
         /\ res.preds = res.structures
         /\ res.labels = res.structures
    /\ (pc = "after_test" /\ num_iters = 10 /\ args.batch_size = 4
          /\ shards.test_examples = 7) =>
         i = 2 /\ Len(res.structures) = 7

\* The example of C10: 10 iterations, batches of 4, a stream of 7.
C10_Witness ==
    /\ pc = "after_test" /\ num_iters = 10 /\ args.batch_size = 4
    /\ shards.test_examples = 7
    /\ broke /\ i = 2 /\ num_batches = 3
    /\ res.structures = <<1, 2, 3, 4, 5, 6, 7>>

\* The k-th batch of a stream taken in order: elements (k-1)*B+1 .. k*B,
\* fewer when the stream ends inside it.
InOrderBatch(k, n) == [j \in 1..n |-> (k - 1) * args.batch_size + j]

\* C11: with shuffling disabled every split's batches are consecutive
\* elements of the stream in stream order: the k-th batch of a pass holds
\* the elements k*B .. k*B+B-1 (counted from 0), for train, val and test.
C11_InOrderBatches ==
    (~args.shuffle /\ pc \in {"loop", "after_train", "after_val", "after_test"}) =>
        \A k \in 1..Len(arrived) : arrived[k] = InOrderBatch(k, Len(arrived[k]))

\* C12: a test-only run makes no train or val pass and writes no
\* checkpoint and no run_info.json; the checkpoint it restores is the
\* best_ckpt of model_dir's run_info.json; when that file or its best_ckpt
\* entry is missing the run aborts before a test pass starts.
C12_TestOnly ==
    args.test_only =>
        /\ \A k \in 1..Len(passes) : passes[k] = "test"
        /\ epoch = 0 /\ train_res = EmptyResult /\ val_res = EmptyResult
        /\ ckpt = None /\ DOMAIN ckpt_files = {}
        /\ disk.state = "absent"
        /\ to_use # None =>
             /\ model_dir.exists /\ "best_ckpt" \in DOMAIN model_dir.info
             /\ to_use = Some(model_dir.info["best_ckpt"])
        /\ pc = "test_count" => params = model_dir.files[Val(to_use)]
        /\ ~model_dir.exists =>
             /\ passes = <<>> /\ pc \in {"start", "select", "aborted"}
             /\ pc = "aborted" => err = Some("FileNotFoundError")
        /\ (model_dir.exists /\ "best_ckpt" \notin DOMAIN model_dir.info) =>
             /\ passes = <<>> /\ pc \in {"start", "select", "aborted"}
             /\ pc = "aborted" => err = Some("KeyError")

\* A test-only run that restored checkpoint 1 of a model_dir holding
\* checkpoints 1 and 2 and finished its test pass.
C12_Witness ==
    /\ args.test_only /\ pc = "done" /\ passes = <<"test">>
    /\ DOMAIN model_dir.files = {1, 2} /\ to_use = Some(1)

\* A test-only run that aborted on a run_info.json without best_ckpt.
C12_WitnessAbort ==
    /\ args.test_only /\ pc = "aborted" /\ err = Some("KeyError")
    /\ passes = <<>>

\* The train and val result tables of epoch k are on disk.
TablesWritten(k) ==
    <<"train", k>> \in DOMAIN tables /\ <<"val", k>> \in DOMAIN tables

\* The epoch loop is at or behind the end of the body of epoch `epoch`.
AfterTables ==
    \/ pc \in {"early_stop", "epoch_head", "select", "test_count",
               "after_test", "done"}
    \/ pc = "loop" /\ mode = "test"

\* C13: every epoch that runs has its train and val result tables written
\* before the loop is left, the epoch that stops early included: the loop
\* is left only behind the val_losses record, the checkpoint decisions and
\* the table writes of its last epoch.
C13_TablesEveryEpoch ==
    Training =>
        /\ \A k \in 1..(epoch - 1) : TablesWritten(k)
        /\ AfterTables =>
             /\ \A k \in 1..epoch : TablesWritten(k)
             /\ epoch >= 1 =>
                  /\ Len(run_info["val_losses"]) = epoch
                  /\ args.save_all_ckpts => epoch \in DOMAIN ckpt_files
        /\ (pc = "early_stop" /\ epoch >= 1) =>
             /\ tables[<<"train", epoch>>] = train_res.structures
             /\ tables[<<"val", epoch>>] = val_res.structures

\* A run that stopped early in epoch 2 with the tables of both epochs.
C13_Witness ==
    /\ Training /\ args.early_stopping /\ pc = "select"
    /\ epoch = 2 /\ args.num_epochs = 3 /\ StopEarly
    /\ TablesWritten(1) /\ TablesWritten(2)

\* C14: with save_all_ckpts every epoch that runs leaves a checkpoint
\* tagged with its number, whether or not its loss improved, whatever
\* use_best and early_stopping are, and also when it stops the loop.
C14_SaveAllEveryEpoch ==
    (Training /\ args.save_all_ckpts) =>
        /\ \A k \in 1..(epoch - 1) : k \in DOMAIN ckpt_files
        /\ (AfterTables \/ pc = "tables") =>
             \A k \in 1..epoch : k \in DOMAIN ckpt_files
        /\ (pc = "tables" /\ epoch >= 1) =>
             ckpt = Some(epoch) /\ ckpt_files[epoch] = params

\* An early-stopped run with save_all_ckpts: epoch 2 did not improve on
\* epoch 1, stopped the loop, and has its checkpoint.
C14_Witness ==
    /\ Training /\ args.save_all_ckpts /\ args.early_stopping
    /\ pc = "select" /\ epoch = 2 /\ StopEarly
    /\ ~Improved(2) /\ DOMAIN ckpt_files = {1, 2}

\* C15: after every update of run_info the file run_info.json, read back,
\* is the whole in-memory dict (every key put so far, not only the last),
\* and after k completed epochs its val_losses are the k validation losses
\* in epoch order.
C15_RunInfoRoundTrip ==
    Training =>
        /\ pc # "dump" =>
             IF disk.state = "absent" THEN run_info = EmptyDict
             ELSE disk.state = "written" /\ JsonLoad(disk.data) = run_info
        /\ (pc = "best_check" /\ ret = "none") =>
             /\ Len(JsonLoad(disk.data)["val_losses"]) = epoch
             /\ JsonLoad(disk.data)["val_losses"][epoch] = curr_val_loss
        /\ EpochComplete =>
             /\ JsonLoad(disk.data)["val_losses"] = per_epoch_val_losses
             /\ Len(per_epoch_val_losses) = epoch

\* run_info.json after two epochs with losses 3 and 1: three entries.
C15_Witness ==
    /\ Training /\ pc = "select" /\ epoch = 2
    /\ disk.data = << <<"val_losses", << <<3, 1>>, <<1, 1>> >> >>,
                      <<"val_best_loss", <<1, 1>> >>,
                      <<"best_ckpt", 2>> >>
    /\ run_info = JsonLoad(disk.data)

\* The test sampling configuration the test phase accepts (lines 401-415).
ValidTesting ==
    /\ ~args.full_test
    /\ args.max_pos_regions_per_ensemble_testing > 0
    /\ args.neg_to_pos_ratio_testing > 0

\* C16: training terminates: at most num_epochs epochs run, each one train
\* pass followed by one val pass; the loop is left only with the epoch
\* count exhausted or on early stopping; and the loop is followed by
\* exactly one test pass, so a run that has trained and has a valid test
\* configuration does not abort.
C16_TrainingTerminates ==
    Training =>
        /\ epoch <= args.num_epochs
        /\ Len(passes) <= 2 * epoch + 1
        /\ \A k \in 1..Len(passes) :
             passes[k] = IF k > 2 * epoch THEN "test"
                         ELSE IF k % 2 = 1 THEN "train" ELSE "val"
        /\ AfterTables => Len(passes) >= 2 * epoch
        /\ pc = "select" => (epoch = args.num_epochs \/ StopEarly)
        /\ pc = "done" => Len(passes) = 2 * epoch + 1
        /\ (epoch >= 1 /\ ValidTesting) => pc # "aborted"

\* C19: a training run that reaches the test phase has a checkpoint to
\* restore, for every combination of use_best, early_stopping and
\* save_all_ckpts and every num_epochs >= 1: ckpt is bound, or best_ckpt
\* is in run_info.
C19_CheckpointDefined ==
    (Training /\ args.num_epochs >= 1 /\ pc = "select") => Selected # None

\* The examples of a sequence of batches, in arrival order.
RECURSIVE Flatten(_)
Flatten(batches) ==
    IF batches = <<>> THEN <<>> ELSE Head(batches) \o Flatten(Tail(batches))

\* C17: at every point of a pass the collected structures, logits, preds
\* and labels have one length, the number of examples of the batches
\* processed so far; position n of each belongs to the same example; and
\* the examples are in batch arrival order: a batch is in all four
\* sequences or in none.
C17_AlignedSequences ==
    (pc \in {"loop", "after_train", "after_val", "after_test"}) =>
        /\ Len(arrived) = i
        /\ Len(res.structures) = Len(Flatten(arrived))
        /\ Len(res.logits) = Len(res.structures)
        /\ Len(res.preds) = Len(res.structures)
        /\ Len(res.labels) = Len(res.structures)
        /\ res.structures = Flatten(arrived)
        /\ \A n \in 1..Len(res.structures) :
             /\ res.logits[n] = res.structures[n]
             /\ res.preds[n] = res.structures[n]
             /\ res.labels[n] = res.structures[n]

\* A test pass of two batches, the second one short: three examples.
C17_Witness ==
    /\ pc = "after_test" /\ arrived = << <<1, 2>>, <<3>> >>
    /\ res.structures = <<1, 2, 3>> /\ res.labels = <<1, 2, 3>>

\* A shuffled train pass whose batch came out of stream order.
C17_WitnessShuffled ==
    /\ pc = "after_train" /\ arrived = << <<3, 1>> >>
    /\ res.structures = <<3, 1>> /\ res.logits = <<3, 1>>

\* C18: after i batches of a pass the running epoch loss is the arithmetic
\* mean of the i per-batch mean losses, and 0 when no batch was processed;
\* the value the val pass ends with is the curr_val_loss that model
\* selection and early stopping use.
C18_RunningMean ==
    /\ (pc \in {"loop", "after_train", "after_val", "after_test"}) =>
         /\ epoch_loss[2] > 0
         /\ epoch_loss[1] * i = loss_sum * epoch_loss[2]
         /\ i = 0 => epoch_loss = <<0, 1>>
    /\ (Training /\ mode = "val"
          /\ pc \in {"dump", "best_check", "best_ckpt", "final_check",
                     "save_all", "tables", "early_stop", "epoch_head",
                     "select", "test_count"}) =>
         /\ curr_val_loss = epoch_loss
         /\ curr_val_loss[1] * i = loss_sum * curr_val_loss[2]
         /\ per_epoch_val_losses[epoch] = curr_val_loss

\* A val pass of two batches with losses 1 and 2 whose mean 3/2 is the
\* loss the epoch is judged by.
C18_Witness ==
    /\ Training /\ mode = "val" /\ pc = "early_stop"
    /\ i = 2 /\ loss_sum = 3 /\ curr_val_loss = <<3, 2>>

\* C20: with early stopping prev_val_loss equals best_val_loss at the
\* start of every epoch, both +infinity before epoch 1: the loop goes on
\* only behind an epoch whose loss is below the previous one, which is
\* then the best one as well.
C20_PrevIsBest ==
    (Training /\ args.early_stopping /\ pc = "epoch_head") =>
        /\ prev_val_loss = best_val_loss
        /\ epoch = 0 => prev_val_loss = Inf
        /\ epoch >= 1 =>
             /\ prev_val_loss = per_epoch_val_losses[epoch]
             /\ prev_val_loss = MinLoss(epoch)

\* The head of epoch 3 of an early-stopping run without use_best, its
\* losses 3 and 1 so far: both variables are 1.
C20_Witness ==
    /\ Training /\ args.early_stopping /\ ~args.use_best
    /\ pc = "epoch_head" /\ epoch = 2
    /\ per_epoch_val_losses = << <<3, 1>>, <<1, 1>> >>
    /\ prev_val_loss = <<1, 1>> /\ best_val_loss = <<1, 1>>

\* Epoch k only equalled the smallest loss of the epochs before it.
Tied(k) == k >= 2 /\ per_epoch_val_losses[k] = MinLoss(k - 1)

\* C21: with use_best, when several epochs have the smallest validation
\* loss, best_ckpt of run_info is the checkpoint of the earliest of them:
\* an epoch whose loss only equals best_val_loss saves no best checkpoint
\* (it has a checkpoint only through save_all_ckpts) and leaves best_ckpt
\* and val_best_loss as they were.
C21_EarliestBestKept ==
    (EpochComplete /\ args.use_best) =>
        /\ run_info["best_ckpt"] = BestEpoch
        /\ run_info["val_best_loss"] = per_epoch_val_losses[BestEpoch]
        /\ JsonLoad(disk.data)["best_ckpt"] = BestEpoch
        /\ BestEpoch \in DOMAIN ckpt_files
        /\ ~Tied(BestEpoch)
        /\ \A k \in 1..epoch :
             Tied(k) => (k \in DOMAIN ckpt_files => args.save_all_ckpts)
        /\ (Tied(epoch) /\ ~args.save_all_ckpts) => ckpt = Some(BestEpoch)

\* Epochs 2 and 3 both have the smallest loss, 1: best_ckpt is epoch 2
\* and epoch 3 has no checkpoint.
C21_Witness ==
    /\ EpochComplete /\ args.use_best /\ ~args.save_all_ckpts
    /\ epoch = 3 /\ per_epoch_val_losses = << <<2, 1>>, <<1, 1>>, <<1, 1>> >>
    /\ Tied(3) /\ run_info["best_ckpt"] = 2
    /\ DOMAIN ckpt_files = {1, 2}

=============================================================================
